---- MODULE Spec2Model ----
(***************************************************************************)
(* cmarkfmt: the event-to-text renderer of src/src/lib.rs (Context).       *)
(*                                                                         *)
(* A string is a sequence of one-character strings.  The renderer's state  *)
(* is the Context struct; the tokenizer (pulldown_cmark::Parser) is the    *)
(* environment: it hands the renderer a well-nested event sequence, one    *)
(* event per step.  Every fallible call of the source (the `?` operator)   *)
(* is modelled by threading the context through the operators below: once  *)
(* c.err is set every later operation of the same render is skipped.       *)
(***************************************************************************)
EXTENDS Integers, Sequences, FiniteSets, TLC

VARIABLES
    writer,            \* Context.writer: the text the sink has accepted
    fuel,              \* sink: write calls it still accepts (-1: never fails)
    calls,             \* sink: write calls it has received
    refdefs,           \* Context.refdefs
    opts,              \* Context.opts
    table,             \* Context.table
    stack,             \* Context.stack
    text_buf,          \* Context.text_buf
    newline_required,  \* Context.newline_required
    code_block,        \* Context.code_block
    last_line_blank,   \* Context.last_line_blank
    is_last_html,      \* local of Context::format
    err,               \* the render's fmt::Result is Err
    pc,                \* "run": in the event loop, "done": format returned
    open,              \* tokenizer: the tags started and not yet ended
    nev,               \* tokenizer: events handed out so far
    ev                 \* the event handled by the last step

vars == <<writer, fuel, calls, refdefs, opts, table, stack, text_buf,
          newline_required, code_block, last_line_blank, is_last_html,
          err, pc, open, nev, ev>>

----------------------------------------------------------------------------
(* Strings *)

NL == "\n"
BSL == "\\"
SP == " "
\* the grave accent U+0060, which a string literal of this language cannot hold
BT == "backtick"

Max2(a, b) == IF a >= b THEN a ELSE b

Last(s) == s[Len(s)]
Front(s) == SubSeq(s, 1, Len(s) - 1)

Spaces(n) == [i \in 1..n |-> SP]

Repeat(ch, n) == [i \in 1..n |-> ch]

IsPrefix(p, s) == Len(p) <= Len(s) /\ SubSeq(s, 1, Len(p)) = p

\* char::is_whitespace, on the characters of the model
IsWhite(ch) == ch \in {" ", "\t", "\n", "\r"}

\* str::trim_end
RECURSIVE TrimEnd(_)
TrimEnd(s) ==
    IF s = <<>> THEN <<>>
    ELSE IF IsWhite(Last(s)) THEN TrimEnd(Front(s)) ELSE s

\* position of the first "\n" of s, 0 when there is none
RECURSIVE FirstNL(_, _)
FirstNL(s, i) ==
    IF i > Len(s) THEN 0
    ELSE IF s[i] = NL THEN i ELSE FirstNL(s, i + 1)

\* str::lines: the pieces between line feeds; a final line feed ends the last
\* line and opens no empty one
RECURSIVE Lines(_)
Lines(s) ==
    IF s = <<>> THEN <<>>
    ELSE LET i == FirstNL(s, 1) IN
         IF i = 0 THEN <<s>>
         ELSE <<SubSeq(s, 1, i - 1)>> \o Lines(SubSeq(s, i + 1, Len(s)))

\* u8::to_ascii_lowercase, on the characters of the model
LowerCh(ch) ==
    CASE ch = "U" -> "u"
      [] ch = "V" -> "v"
      [] ch = "A" -> "a"
      [] ch = "B" -> "b"
      [] OTHER -> ch

\* str::eq_ignore_ascii_case
EqIgnoreAsciiCase(a, b) ==
    /\ Len(a) = Len(b)
    /\ \A i \in 1..Len(a) : LowerCh(a[i]) = LowerCh(b[i])

\* the byte order of the characters labels are made of
Rank(ch) ==
    CASE ch = "A" -> 1
      [] ch = "B" -> 2
      [] ch = "a" -> 3
      [] ch = "b" -> 4
      [] OTHER -> 5

\* String::cmp: a < b, lexicographic
RECURSIVE StrLess(_, _)
StrLess(a, b) ==
    IF b = <<>> THEN FALSE
    ELSE IF a = <<>> THEN TRUE
    ELSE IF Rank(a[1]) # Rank(b[1]) THEN Rank(a[1]) < Rank(b[1])
    ELSE StrLess(Tail(a), Tail(b))

\* u64::to_string
RECURSIVE to_string(_)
to_string(n) ==
    LET d == <<"0", "1", "2", "3", "4", "5", "6", "7", "8", "9">>[(n % 10) + 1] IN
    IF n < 10 THEN <<d>> ELSE to_string(n \div 10) \o <<d>>

\* Option<T>
None == [some |-> FALSE, v |-> <<>>]
Some(x) == [some |-> TRUE, v |-> x]

----------------------------------------------------------------------------
(* The data of the renderer *)

STRONG == <<"*", "*">>
STRIKETHROUGH == <<"~", "~">>
FENCE == <<BT, BT, BT>>

\* enum StackItem
Blockquote == [k |-> "Blockquote", l |-> None, written |-> FALSE, newline |-> FALSE]
CodeIndent == [k |-> "CodeIndent", l |-> None, written |-> FALSE, newline |-> FALSE]
List(l, written, newline) ==
    [k |-> "List", l |-> l, written |-> written, newline |-> newline]

\* Option<Table>
NoTable == [some |-> FALSE, alignments |-> <<>>, head |-> <<>>, body |-> <<>>]
\* Table::new
TableNew(alignments) ==
    [some |-> TRUE, alignments |-> alignments, head |-> <<>>, body |-> <<>>]

\* Option<Option<String>>: Context.code_block
NoCodeBlock == [some |-> FALSE, lang |-> None]
InCodeBlock(lang) == [some |-> TRUE, lang |-> lang]

\* struct Reference
Reference(label, dest, title) == [label |-> label, dest |-> dest, title |-> title]

\* the Context, as the operators below pass it along
Ctx ==
    [writer |-> writer, fuel |-> fuel, calls |-> calls, refdefs |-> refdefs,
     opts |-> opts, table |-> table, stack |-> stack, text_buf |-> text_buf,
     newline_required |-> newline_required, code_block |-> code_block,
     last_line_blank |-> last_line_blank, err |-> err]

\* Context::new
ContextNew(f, r, o) ==
    [writer |-> <<>>, fuel |-> f, calls |-> 0, refdefs |-> r, opts |-> o,
     table |-> NoTable, stack |-> <<>>, text_buf |-> <<>>,
     newline_required |-> FALSE, code_block |-> NoCodeBlock,
     last_line_blank |-> TRUE, err |-> FALSE]

\* Formatter::default, with the with_* methods applied
Formatter(code_fmt, blockquote, emphasis, unordered_list) ==
    [code_fmt |-> code_fmt, blockquote_str |-> blockquote,
     emphasis_str |-> emphasis, unordered_list_str |-> unordered_list]

FormatterDefault == Formatter("none", <<">">>, <<"_">>, <<"-">>)

----------------------------------------------------------------------------
(* The line emission engine *)

\* SinkWrite without the `?`: the sink is written to after it has failed
SinkWriteUnchecked(c, s) ==
    IF c.fuel = 0
    THEN [c EXCEPT !.err = TRUE, !.calls = @ + 1]
    ELSE [c EXCEPT !.writer = @ \o s,
                   !.fuel = IF @ > 0 THEN @ - 1 ELSE @,
                   !.calls = @ + 1]

\* W::write_str / W::write_char on Context.writer: the sink accepts the text,
\* or fails and the `?` of the caller ends the render
SinkWrite(c, s) ==
    IF c.err THEN c
    ELSE IF c.fuel = 0
         THEN [c EXCEPT !.err = TRUE, !.calls = @ + 1]
         ELSE [c EXCEPT !.writer = @ \o s,
                        !.fuel = IF @ > 0 THEN @ - 1 ELSE @,
                        !.calls = @ + 1]

\* PadItem with two spaces for every list frame whose marker is written
PadItemTwoSpaces(item, o) ==
    CASE item.k = "Blockquote" -> o.blockquote_str \o <<SP>>
      [] item.k = "CodeIndent" -> Spaces(4)
      [] item.k = "List" ->
            IF item.written
            THEN Spaces(2)
            ELSE IF item.l.some
                 THEN item.l.v \o <<".", SP>>
                 ELSE o.unordered_list_str \o <<SP>>

\* what one frame appends to the scratch line in write_padding_to_scratch
PadItem(item, o) ==
    CASE item.k = "Blockquote" -> o.blockquote_str \o <<SP>>
      [] item.k = "CodeIndent" -> Spaces(4)
      [] item.k = "List" ->
            IF item.written
            THEN IF item.l.some
                 THEN Spaces(Len(item.l.v) + 2)
                 ELSE Spaces(Len(o.unordered_list_str) + 1)
            ELSE IF item.l.some
                 THEN item.l.v \o <<".", SP>>
                 ELSE o.unordered_list_str \o <<SP>>

RECURSIVE PadAll(_, _)
PadAll(st, o) ==
    IF st = <<>> THEN <<>> ELSE PadItem(Head(st), o) \o PadAll(Tail(st), o)

\* write_padding_to_scratch that leaves `written` as it is
write_padding_keeps_flags(c) == [pad |-> PadAll(c.stack, c.opts), stack |-> c.stack]

\* the number a string of decimal digits stands for
RECURSIVE Ordinal(_)
Ordinal(v) ==
    IF v = <<>> THEN 0
    ELSE Ordinal(Front(v)) * 10 + (CHOOSE d \in 0..9 : to_string(d) = <<Last(v)>>)

\* write_padding_to_scratch that counts the items: the ordinal of a frame that
\* writes its marker is one more for the next item
write_padding_counts_items(c) ==
    [pad |-> PadAll(c.stack, c.opts),
     stack |-> [i \in 1..Len(c.stack) |->
                  IF c.stack[i].k = "List"
                  THEN IF ~c.stack[i].written /\ c.stack[i].l.some
                       THEN [c.stack[i] EXCEPT !.written = TRUE,
                                               !.l.v = to_string(Ordinal(@) + 1)]
                       ELSE [c.stack[i] EXCEPT !.written = TRUE]
                  ELSE c.stack[i]]]

\* Context::write_padding_to_scratch: the padding of the line, and the frames
\* with every list's `written` set
write_padding_to_scratch(c) ==
    [pad |-> PadAll(c.stack, c.opts),
     stack |-> [i \in 1..Len(c.stack) |->
                  IF c.stack[i].k = "List"
                  THEN [c.stack[i] EXCEPT !.written = TRUE]
                  ELSE c.stack[i]]]

\* `self.last_line_blank = buf.is_empty()`
SetLastLineBlank(c, b) == IF c.err THEN c ELSE [c EXCEPT !.last_line_blank = b]

\* WriteBuf without its test: every line is written, blank or not
WriteBufUnguarded(c, buf) ==
    SetLastLineBlank(SinkWrite(SinkWrite(c, buf), <<NL>>), buf = <<>>)

\* Context::write_line, from `if !buf.is_empty() || !self.last_line_blank`
WriteBuf(c, buf) ==
    IF buf # <<>> \/ ~c.last_line_blank
    THEN SetLastLineBlank(SinkWrite(SinkWrite(c, buf), <<NL>>), buf = <<>>)
    ELSE SetLastLineBlank(c, buf = <<>>)

\* WriteScratch that never trims the scratch line
WriteScratchUntrimmed(c, p, line, trim) ==
    WriteBuf([c EXCEPT !.stack = p.stack], p.pad \o line)

\* Context::write_line, after the padding: the scratch line and its trimming
WriteScratch(c, p, line, trim) ==
    WriteBuf([c EXCEPT !.stack = p.stack],
             IF trim THEN TrimEnd(p.pad \o line) ELSE p.pad \o line)

\* Context::write_line
write_line(c, line, trim) ==
    IF c.err THEN c ELSE WriteScratch(c, write_padding_to_scratch(c), line, trim)

RECURSIVE WriteLines(_, _, _)
WriteLines(c, ls, trim) ==
    IF ls = <<>> THEN c
    ELSE WriteLines(write_line(c, Head(ls), trim), Tail(ls), trim)

\* Context::write_newline_with_trim
write_newline_with_trim(c, trim) ==
    IF c.err THEN c
    ELSE IF c.text_buf # <<>>
         THEN WriteLines([c EXCEPT !.text_buf = <<>>], Lines(c.text_buf), trim)
         ELSE write_line(c, <<>>, trim)

\* Context::write_newline
write_newline(c) == write_newline_with_trim(c, TRUE)

\* Context::write_str, Context::write_char: appended to the pending line
write_str(c, s) == IF c.err THEN c ELSE [c EXCEPT !.text_buf = @ \o s]

write_char(c, ch) == write_str(c, <<ch>>)

\* Context::write_backslash
write_backslash(c) == write_char(c, BSL)

\* `self.newline_required = b`
SetNewlineRequired(c, b) == IF c.err THEN c ELSE [c EXCEPT !.newline_required = b]

\* Context::write_newline_if_required
write_newline_if_required(c) ==
    IF c.err THEN c
    ELSE IF c.newline_required
         THEN SetNewlineRequired(write_newline(c), FALSE)
         ELSE c

\* Context::write_newline_if_content
write_newline_if_content(c) ==
    IF c.err THEN c
    ELSE IF c.text_buf # <<>> \/ c.stack # <<>> THEN write_newline(c) ELSE c

\* Context::write_heading_level
write_heading_level(c, lvl) == write_str(c, Repeat("#", lvl) \o <<SP>>)

\* the characters write_optional_escape escapes wherever they stand
EscapeAlways == {BSL, "<", ">", "*", "_", BT, "[", "]", "~"}
\* the characters it escapes only at the start of the pending line
EscapeAtLineStart == {"#", "-", "+"}

\* write_optional_escape that escapes every character only at the start of the
\* pending line
write_optional_escape_at_start(c, s) ==
    IF c.err THEN c
    ELSE IF c.code_block.some
         THEN IF IsPrefix(FENCE, s) THEN write_backslash(c) ELSE c
    ELSE IF s = <<>> THEN c
    ELSE IF c.table.some /\ s[1] = "|" THEN write_backslash(c)
    ELSE IF s[1] \in EscapeAlways \cup EscapeAtLineStart /\ c.text_buf = <<>>
         THEN write_backslash(c)
    ELSE c

\* Context::write_optional_escape
write_optional_escape(c, s) ==
    IF c.err THEN c
    ELSE IF c.code_block.some
         THEN IF IsPrefix(FENCE, s) THEN write_backslash(c) ELSE c
    ELSE IF s = <<>> THEN c
    ELSE IF c.table.some /\ s[1] = "|" THEN write_backslash(c)
    ELSE IF s[1] \in EscapeAlways THEN write_backslash(c)
    ELSE IF s[1] \in EscapeAtLineStart /\ c.text_buf = <<>> THEN write_backslash(c)
    ELSE c

\* the title suffix of an inline destination or of a reference definition
Quoted(title) == <<SP, "\"">> \o title \o <<"\"">>

----------------------------------------------------------------------------
(* Tags and events of the tokenizer (pulldown_cmark::Tag, ::Event) *)

Tag0 ==
    [t |-> "None", lvl |-> 0, id |-> None, classes |-> <<>>, fenced |-> FALSE,
     info |-> <<>>, start |-> None, label |-> <<>>, alignments |-> <<>>,
     ltype |-> "None", dest |-> <<>>, title |-> <<>>]

\* the tags that carry no data: Paragraph, BlockQuote, Item, TableHead, TableRow,
\* TableCell, Emphasis, Strong, Strikethrough
Tag(t) == [Tag0 EXCEPT !.t = t]
TagParagraph == Tag("Paragraph")
TagHeading(lvl, id, classes) ==
    [Tag0 EXCEPT !.t = "Heading", !.lvl = lvl, !.id = id, !.classes = classes]
TagBlockQuote == Tag("BlockQuote")
TagCodeBlockIndented == [Tag0 EXCEPT !.t = "CodeBlock"]
TagCodeBlockFenced(info) ==
    [Tag0 EXCEPT !.t = "CodeBlock", !.fenced = TRUE, !.info = info]
TagList(start) == [Tag0 EXCEPT !.t = "List", !.start = start]
TagItem == Tag("Item")
TagFootnoteDefinition(label) ==
    [Tag0 EXCEPT !.t = "FootnoteDefinition", !.label = label]
TagTable(alignments) == [Tag0 EXCEPT !.t = "Table", !.alignments = alignments]
TagLink(ltype, dest, title) ==
    [Tag0 EXCEPT !.t = "Link", !.ltype = ltype, !.dest = dest, !.title = title]
TagImage(ltype, dest, title) ==
    [Tag0 EXCEPT !.t = "Image", !.ltype = ltype, !.dest = dest, !.title = title]

Event0 == [kind |-> "None", tag |-> Tag0, s |-> <<>>, checked |-> FALSE]

EvStart(tag) == [Event0 EXCEPT !.kind = "Start", !.tag = tag]
EvEnd(tag) == [Event0 EXCEPT !.kind = "End", !.tag = tag]
EvText(s) == [Event0 EXCEPT !.kind = "Text", !.s = s]
EvCode(s) == [Event0 EXCEPT !.kind = "Code", !.s = s]
EvHtml(s) == [Event0 EXCEPT !.kind = "Html", !.s = s]
EvSoftBreak == [Event0 EXCEPT !.kind = "SoftBreak"]
EvHardBreak == [Event0 EXCEPT !.kind = "HardBreak"]
EvRule == [Event0 EXCEPT !.kind = "Rule"]
EvTaskListMarker(b) == [Event0 EXCEPT !.kind = "TaskListMarker", !.checked = b]
EvFootnoteReference(s) == [Event0 EXCEPT !.kind = "FootnoteReference", !.s = s]
\* the iterator returned no further event
EvEof == [Event0 EXCEPT !.kind = "Eof"]

----------------------------------------------------------------------------
(* The event dispatcher *)

TopIsList(c) == c.stack # <<>> /\ Last(c.stack).k = "List"

\* `*newline = true` on the list frame on top of the stack, when there is one
MarkTopNewline(c) ==
    IF ~c.err /\ TopIsList(c)
    THEN [c EXCEPT !.stack[Len(c.stack)].newline = TRUE]
    ELSE c

\* Vec::push
Push(c, item) == IF c.err THEN c ELSE [c EXCEPT !.stack = Append(@, item)]

\* Vec::pop: nothing happens on an empty stack
Pop(c) ==
    IF c.err THEN c ELSE [c EXCEPT !.stack = IF @ = <<>> THEN <<>> ELSE Front(@)]

\* `self.code_block = v`
SetCodeBlock(c, v) == IF c.err THEN c ELSE [c EXCEPT !.code_block = v]

\* Tag::CodeBlock of tag_start: `if !self.text_buf.is_empty() { write_newline }`
FlushPending(c) == IF ~c.err /\ c.text_buf # <<>> THEN write_newline(c) ELSE c

\* Tag::CodeBlock of tag_start: `match kind`
StartCodeBlock(c, tag) ==
    IF tag.fenced
    THEN SetCodeBlock(write_newline(write_str(write_str(c, FENCE), tag.info)),
                      InCodeBlock(Some(tag.info)))
    ELSE Push(SetCodeBlock(c, InCodeBlock(None)), CodeIndent)

\* Tag::List of tag_start: a list opened inside a list item
NestList(c) ==
    IF ~c.err /\ TopIsList(c) THEN write_newline(MarkTopNewline(c)) ELSE c

\* Context::tag_start, after write_newline_if_required: `match tag`
StartTag(c, tag) ==
    CASE tag.t = "Heading" -> write_heading_level(c, tag.lvl)
      [] tag.t = "BlockQuote" -> Push(c, Blockquote)
      [] tag.t = "CodeBlock" -> StartCodeBlock(FlushPending(c), tag)
      [] tag.t = "List" ->
            Push(NestList(c),
                 List(IF tag.start.some THEN Some(to_string(tag.start.v)) ELSE None,
                      FALSE, FALSE))
      [] tag.t = "Item" ->
            IF ~c.err /\ TopIsList(c)
            THEN [c EXCEPT !.stack[Len(c.stack)].written = FALSE,
                           !.stack[Len(c.stack)].newline = FALSE]
            ELSE c
      [] tag.t = "FootnoteDefinition" ->
            write_str(write_str(write_str(c, <<"[", "^">>), tag.label), <<"]", ":", SP>>)
      [] tag.t = "Table" ->
            IF c.err THEN c ELSE [c EXCEPT !.table = TableNew(tag.alignments)]
      [] tag.t = "TableRow" ->
            IF ~c.err /\ c.table.some
            THEN [c EXCEPT !.table.body = Append(@, <<>>)]
            ELSE c
      [] tag.t = "Emphasis" -> write_str(c, c.opts.emphasis_str)
      [] tag.t = "Strong" -> write_str(c, STRONG)
      [] tag.t = "Strikethrough" -> write_str(c, STRIKETHROUGH)
      [] tag.t = "Link" ->
            IF tag.ltype \in {"Autolink", "Email"}
            THEN write_char(c, "<")
            ELSE write_char(c, "[")
      [] tag.t = "Image" -> write_str(c, <<"!", "[">>)
      [] OTHER -> c

\* Context::tag_start
tag_start(c, tag) == StartTag(write_newline_if_required(c), tag)

\* usize subtraction
USub(a, b) == a - b

Min2(a, b) == IF a <= b THEN a ELSE b

\* the widest cell of column i over the body rows, 0 for a row without it
RECURSIVE MaxBodyCell(_, _)
MaxBodyCell(body, i) ==
    IF body = <<>> THEN 0
    ELSE Max2(IF i <= Len(Head(body)) THEN Len(Head(body)[i]) ELSE 0,
              MaxBodyCell(Tail(body), i))

\* column_widths that looks at the header only
column_widths_head_only(t) ==
    [i \in 1..Len(t.head) |-> Max2(Len(t.head[i]), 3)]

\* column_widths without the least width of 3
column_widths_no_floor(t) ==
    [i \in 1..Len(t.head) |-> Max2(MaxBodyCell(t.body, i), Len(t.head[i]))]

\* Table::column_widths
column_widths(t) ==
    [i \in 1..Len(t.head) |-> Max2(Max2(MaxBodyCell(t.body, i), Len(t.head[i])), 3)]

\* one cell of Context::write_table_row
WriteCell(c, s, w) ==
    write_str(write_str(write_str(write_char(c, SP), s), Spaces(USub(w, Len(s)))),
              <<SP, "|">>)

\* the cells of Context::write_table_row: row.iter().zip(widths.iter())
RECURSIVE WriteCells(_, _, _, _)
WriteCells(c, row, widths, i) ==
    IF i > Min2(Len(row), Len(widths)) THEN c
    ELSE WriteCells(WriteCell(c, row[i], widths[i]), row, widths, i + 1)

\* Context::write_table_row
write_table_row(c, row, widths) ==
    write_newline(WriteCells(write_str(c, <<"|">>), row, widths, 1))

RECURSIVE WriteRows(_, _, _)
WriteRows(c, rows, widths) ==
    IF rows = <<>> THEN c
    ELSE WriteRows(write_table_row(c, Head(rows), widths), Tail(rows), widths)

\* one cell of the divider row of Tag::Table's end
WriteDividerCell(c, w, a) ==
    write_str(
        write_char(
            write_str(
                write_char(write_char(c, SP),
                           IF a \in {"Left", "Center"} THEN ":" ELSE "-"),
                Repeat("-", USub(w, 2))),
            IF a \in {"Right", "Center"} THEN ":" ELSE "-"),
        <<SP, "|">>)

\* the divider row of Tag::Table's end: widths.iter().zip(table.alignments.iter())
RECURSIVE WriteDivider(_, _, _, _)
WriteDivider(c, widths, alignments, i) ==
    IF i > Min2(Len(widths), Len(alignments)) THEN c
    ELSE WriteDivider(WriteDividerCell(c, widths[i], alignments[i]),
                      widths, alignments, i + 1)

\* Tag::Table of tag_end, with the table taken out of the context
WriteTable(c, t, widths) ==
    MarkTopNewline(
        SetNewlineRequired(
            WriteRows(
                write_newline(
                    WriteDivider(write_char(write_table_row(c, t.head, widths), "|"),
                                 widths, t.alignments, 1)),
                t.body, widths),
            TRUE))

\* FindRefdef comparing the destinations exactly
RECURSIVE FindRefdefExact(_, _, _)
FindRefdefExact(rs, dest, i) ==
    IF i > Len(rs) THEN 0
    ELSE IF dest = rs[i].dest THEN i
    ELSE FindRefdefExact(rs, dest, i + 1)

\* refdefs.iter().find(|v| dest.eq_ignore_ascii_case(&v.dest)): its index, or 0
RECURSIVE FindRefdef(_, _, _)
FindRefdef(rs, dest, i) ==
    IF i > Len(rs) THEN 0
    ELSE IF EqIgnoreAsciiCase(dest, rs[i].dest) THEN i
    ELSE FindRefdef(rs, dest, i + 1)

\* ` "title"` when the title is not empty
WriteTitle(c, title) == IF title # <<>> THEN write_str(c, Quoted(title)) ELSE c

\* `](dest "title")`
WriteInlineDest(c, dest, title) ==
    write_char(WriteTitle(write_str(write_str(c, <<"]", "(">>), dest), title), ")")

\* Tag::Link(Reference | ReferenceUnknown) of tag_end, i the definition found
WriteReference(c, i, tag) ==
    IF i # 0
    THEN write_char(write_str(write_str(c, <<"]", "[">>), c.refdefs[i].label), "]")
    ELSE WriteInlineDest(c, tag.dest, tag.title)

\* ` #id` of a heading's attributes
WriteId(c, id) ==
    IF id.some THEN write_str(write_str(c, <<SP, "#">>), id.v) ELSE c

\* ` .class` for each class of a heading
RECURSIVE WriteClasses(_, _)
WriteClasses(c, cs) ==
    IF cs = <<>> THEN c
    ELSE WriteClasses(write_str(write_str(c, <<SP, ".">>), Head(cs)), Tail(cs))

\* Tag::Heading of tag_end: `{ #id .class }`
WriteAttrs(c, tag) ==
    IF tag.id.some \/ tag.classes # <<>>
    THEN write_str(WriteClasses(WriteId(write_char(c, "{"), tag.id), tag.classes),
                   <<SP, "}">>)
    ELSE c

\* `if !matches!(self.stack.last(), Some(StackItem::List(..)))`
RequireUnlessInList(c) == IF ~TopIsList(c) THEN SetNewlineRequired(c, TRUE) ELSE c

\* Tag::List of tag_end, after the pop
RequireUnlessNested(c) ==
    IF ~\E i \in 1..Len(c.stack) : c.stack[i].k = "List"
    THEN SetNewlineRequired(c, TRUE)
    ELSE c

\* PopIndent that pops a frame for a fenced block too
PopIndentAlways(c, tag) == Pop(c)

\* Tag::CodeBlock of tag_end: the frame of an indented block is popped
PopIndent(c, tag) == IF ~tag.fenced THEN Pop(c) ELSE c

\* Tag::TableCell of tag_end
EndTableCell(c) ==
    IF c.err \/ ~c.table.some THEN c
    ELSE IF c.table.body # <<>>
         THEN [c EXCEPT !.table.body[Len(c.table.body)] = Append(@, c.text_buf),
                        !.text_buf = <<>>]
         ELSE [c EXCEPT !.table.head = Append(@, c.text_buf),
                        !.text_buf = <<>>]

\* Context::tag_end
tag_end(c, tag) ==
    CASE tag.t = "Paragraph" ->
            write_newline_if_content(MarkTopNewline(RequireUnlessInList(c)))
      [] tag.t = "Heading" ->
            write_newline(SetNewlineRequired(WriteAttrs(c, tag), TRUE))
      [] tag.t = "BlockQuote" -> RequireUnlessInList(Pop(c))
      [] tag.t = "CodeBlock" ->
            SetCodeBlock(
                SetNewlineRequired(
                    PopIndent(
                        write_newline(IF tag.fenced THEN write_str(c, FENCE) ELSE c),
                        tag),
                    TRUE),
                NoCodeBlock)
      [] tag.t = "List" -> RequireUnlessNested(Pop(c))
      [] tag.t = "Item" ->
            IF TopIsList(c) /\ ~Last(c.stack).newline
            THEN write_newline_if_content(c)
            ELSE c
      [] tag.t = "Table" ->
            IF c.err \/ ~c.table.some THEN c
            ELSE WriteTable([c EXCEPT !.table = NoTable], c.table,
                            column_widths(c.table))
      [] tag.t = "TableCell" -> EndTableCell(c)
      [] tag.t = "Emphasis" -> write_str(c, c.opts.emphasis_str)
      [] tag.t = "Strong" -> write_str(c, STRONG)
      [] tag.t = "Strikethrough" -> write_str(c, STRIKETHROUGH)
      [] tag.t = "Link" /\ tag.ltype \in {"Reference", "ReferenceUnknown"} ->
            WriteReference(c, FindRefdef(c.refdefs, tag.dest, 1), tag)
      [] tag.t = "Link" /\ tag.ltype \in {"Shortcut", "ShortcutUnknown"} ->
            write_char(c, "]")
      [] tag.t = "Link" /\ tag.ltype \in {"Collapsed", "CollapsedUnknown"} ->
            write_str(c, <<"]", "[", "]">>)
      [] tag.t = "Link" /\ tag.ltype \in {"Autolink", "Email"} -> write_char(c, ">")
      [] tag.t = "Image" \/ (tag.t = "Link" /\ tag.ltype = "Inline") ->
            WriteInlineDest(c, tag.dest, tag.title)
      [] OTHER -> c

\* a CodeFormatFn the caller configured, applied to (lang, code): the
\* replacement it returns, if any.  "none" is Formatter.code_fmt = None.
CodeFmtCall(f, lang, s) ==
    CASE f = "decline" -> None
      [] f = "strip" -> Some(TrimEnd(s))
      [] f = "wrap" -> Some(<<"{">> \o s \o <<"}", NL>>)
      [] f = "r-only" -> IF lang = <<"r">> THEN Some(<<"R", NL>>) ELSE None
      [] OTHER -> None

\* TextOf that calls the code formatter inside an indented code block too
TextOfAnyCodeBlock(c, s) ==
    IF c.code_block.some /\ c.opts.code_fmt # "none"
    THEN LET v == CodeFmtCall(c.opts.code_fmt,
                              IF c.code_block.lang.some THEN c.code_block.lang.v ELSE <<>>, s)
         IN IF v.some THEN v.v ELSE s
    ELSE s

\* the text Event::Text appends: the code formatter's replacement inside a
\* fenced code block, the event's text otherwise
TextOf(c, s) ==
    IF c.code_block.some /\ c.code_block.lang.some /\ c.opts.code_fmt # "none"
    THEN LET v == CodeFmtCall(c.opts.code_fmt, c.code_block.lang.v, s) IN
         IF v.some THEN v.v ELSE s
    ELSE s

\* AfterHtml that leaves Text out of the events it exempts
AfterHtmlNotText(c, last_html, e) ==
    IF last_html /\ e.kind \notin {"Html", "SoftBreak", "End"}
    THEN write_newline(c)
    ELSE c

\* Context::format, the head of the loop body: the newline a preceding
\* Event::Html forces
AfterHtml(c, last_html, e) ==
    IF last_html /\ e.kind \notin {"Html", "Text", "SoftBreak", "End"}
    THEN write_newline(c)
    ELSE c

\* Event::Html, after the text: `if s.ends_with('\n') { write_newline }`
FlushHtmlLine(c, s) == IF s # <<>> /\ Last(s) = NL THEN write_newline(c) ELSE c

\* Event::Code: the backslash before a code span that starts with a grave accent
EscapeCode(c, s) == IF s # <<>> /\ s[1] = BT THEN write_backslash(c) ELSE c

\* Event::Text, with the text to append chosen
WriteText(c, text) == write_str(write_optional_escape(c, text), text)

\* Context::format, the `match event` of the loop body
Dispatch(c, e) ==
    CASE e.kind = "Start" -> tag_start(c, e.tag)
      [] e.kind = "End" -> tag_end(c, e.tag)
      [] e.kind = "Text" -> WriteText(c, TextOf(c, e.s))
      [] e.kind = "Code" ->
            write_char(write_str(EscapeCode(write_char(c, BT), e.s), e.s), BT)
      [] e.kind = "Html" ->
            FlushHtmlLine(
                write_str(IF c.text_buf = <<>> THEN write_newline_if_required(c) ELSE c,
                          e.s),
                e.s)
      [] e.kind = "SoftBreak" -> write_newline(c)
      [] e.kind = "HardBreak" -> write_newline_with_trim(write_char(c, BSL), FALSE)
      [] e.kind = "Rule" ->
            SetNewlineRequired(
                write_newline(
                    write_str(IF c.newline_required THEN write_newline(c) ELSE c,
                              <<"-", "-", "-">>)),
                TRUE)
      [] e.kind = "TaskListMarker" ->
            write_str(write_char(write_char(c, "["), IF e.checked THEN "x" ELSE SP),
                      <<"]", SP>>)
      [] e.kind = "FootnoteReference" ->
            write_char(write_str(write_str(c, <<"[", "^">>), e.s), "]")

\* one turn of the loop of Context::format
HandleEvent(c, last_html, e) == Dispatch(AfterHtml(c, last_html, e), e)

\* ` "title"` of a reference definition that has one
WriteRefTitle(c, title) == IF title.some THEN write_str(c, Quoted(title.v)) ELSE c

\* one reference definition: `[label]: dest "title"` and a newline
WriteRefdef(c, r) ==
    write_newline(
        WriteRefTitle(
            write_str(write_str(write_str(write_char(c, "["), r.label),
                                <<"]", ":", SP>>), r.dest),
            r.title))

RECURSIVE WriteRefdefs(_, _)
WriteRefdefs(c, rs) ==
    IF rs = <<>> THEN c ELSE WriteRefdefs(WriteRefdef(c, Head(rs)), Tail(rs))

\* Context::format, after the loop: the reference definitions
FormatTail(c) ==
    IF c.refdefs # <<>>
    THEN WriteRefdefs(write_newline([c EXCEPT !.refdefs = <<>>]), c.refdefs)
    ELSE c

\* the reference definitions of the tokenizer, sorted by label
RECURSIVE SortByLabel(_)
SortByLabel(S) ==
    IF S = {} THEN <<>>
    ELSE LET m == CHOOSE r \in S : \A q \in S \ {r} : ~StrLess(q.label, r.label)
         IN <<m>> \o SortByLabel(S \ {m})

----------------------------------------------------------------------------
(* The tokenizer: which event may come next in a well-nested stream *)

\* an open tag, the number of its children and how many of them are blocks
Frame(tag) == [tag |-> tag, n |-> 0, blocks |-> 0]

\* the tag events are children of; "Doc" at the top level
Top == IF open = <<>> THEN "Doc" ELSE Last(open).tag.t

IsOpen(t) == \E i \in 1..Len(open) : open[i].tag.t = t

BlockTags == {"Paragraph", "Heading", "BlockQuote", "CodeBlock", "List", "Table",
              "FootnoteDefinition"}
InlineTags == {"Emphasis", "Strong", "Strikethrough", "Link", "Image"}
BlockParents == {"Doc", "BlockQuote", "Item", "FootnoteDefinition"}
InlineParents == {"Paragraph", "Heading", "TableCell", "Item"} \cup InlineTags

\* the columns of the table being tokenized
Columns ==
    LET S == {i \in 1..Len(open) : open[i].tag.t = "Table"} IN
    IF S = {} THEN 0
    ELSE Len(open[CHOOSE i \in S : \A j \in S : j <= i].tag.alignments)

CanStart(tag) ==
    CASE tag.t = "FootnoteDefinition" -> Top = "Doc"
      [] tag.t \in BlockTags \ {"FootnoteDefinition"} -> Top \in BlockParents
      [] tag.t = "Item" -> Top = "List"
      [] tag.t = "TableHead" -> Top = "Table" /\ Last(open).n = 0
      [] tag.t = "TableRow" -> Top = "Table" /\ Last(open).n > 0
      [] tag.t = "TableCell" ->
            \/ Top = "TableHead" /\ Last(open).n < Columns
            \/ Top = "TableRow" /\ Last(open).n <= Columns
      [] tag.t = "Link" -> Top \in InlineParents /\ ~IsOpen("Link")
      [] tag.t \in InlineTags \ {"Link"} -> Top \in InlineParents
      [] OTHER -> FALSE

CanEnd ==
    /\ open # <<>>
    /\ Top = "TableHead" => Last(open).n = Columns
    /\ Top \in {"Table", "List"} => Last(open).n > 0

CanLeaf(kind) ==
    CASE kind = "Text" -> Top \in InlineParents \cup {"CodeBlock"}
      [] kind \in {"Code", "FootnoteReference"} -> Top \in InlineParents
      [] kind \in {"SoftBreak", "HardBreak"} ->
            Top \in InlineParents /\ ~IsOpen("Heading") /\ ~IsOpen("TableCell")
      [] kind = "Html" -> Top \in InlineParents \cup BlockParents
      [] kind = "Rule" -> Top \in BlockParents
      [] kind = "TaskListMarker" -> Top = "Item" /\ Last(open).n = 0
      [] OTHER -> FALSE

\* the child count the tokenizer keeps for the parents whose grammar needs it
Counted == {"Table", "TableHead", "TableRow", "TableCell", "Item", "List"}
Child(o) ==
    IF o # <<>> /\ Last(o).tag.t \in Counted
    THEN [o EXCEPT ![Len(o)].n = @ + 1]
    ELSE o

\* the parent of a tag that starts
ChildTag(o, tag) ==
    IF o # <<>> /\ Last(o).tag.t = "Item" /\ tag.t \in BlockTags
    THEN [Child(o) EXCEPT ![Len(o)].blocks = @ + 1]
    ELSE Child(o)

----------------------------------------------------------------------------
(* The render as a state machine *)

Commit(c) ==
    /\ writer' = c.writer
    /\ fuel' = c.fuel
    /\ calls' = c.calls
    /\ refdefs' = c.refdefs
    /\ opts' = c.opts
    /\ table' = c.table
    /\ stack' = c.stack
    /\ text_buf' = c.text_buf
    /\ newline_required' = c.newline_required
    /\ code_block' = c.code_block
    /\ last_line_blank' = c.last_line_blank
    /\ err' = c.err

\* Formatter::format_cmark_writer: the sorted reference definitions and a fresh
\* Context, before the first event
InitWith(Fuels, RefSets, Opts) ==
    /\ \E f \in Fuels, R \in RefSets, o \in Opts :
          LET c == ContextNew(f, SortByLabel(R), o) IN
          /\ writer = c.writer
          /\ fuel = c.fuel
          /\ calls = c.calls
          /\ refdefs = c.refdefs
          /\ opts = c.opts
          /\ table = c.table
          /\ stack = c.stack
          /\ text_buf = c.text_buf
          /\ newline_required = c.newline_required
          /\ code_block = c.code_block
          /\ last_line_blank = c.last_line_blank
          /\ err = c.err
    /\ is_last_html = FALSE
    /\ pc = "run"
    /\ open = <<>>
    /\ nev = 0
    /\ ev = Event0

\* the context after a turn of the loop; a failed write ends the render with Err
Result(c) ==
    /\ Commit(c)
    /\ pc' = IF c.err THEN "done" ELSE "run"

\* one turn of the loop of Context::format on event e
Step(e, o) ==
    /\ pc = "run"
    /\ Result(HandleEvent(Ctx, is_last_html, e))
    /\ is_last_html' = (e.kind = "Html")
    /\ ev' = e
    /\ nev' = nev + 1
    /\ open' = o

\* Event::Start(tag)
Start(Tags, Max) ==
    \E tag \in Tags :
        /\ CanStart(tag)
        /\ nev + Len(open) + 2 <= Max
        /\ Step(EvStart(tag), Append(ChildTag(open, tag), Frame(tag)))

\* Event::End(tag)
End ==
    /\ CanEnd
    /\ Step(EvEnd(Last(open).tag), Front(open))

Leaf(e, Max) ==
    /\ CanLeaf(e.kind)
    /\ nev + Len(open) + 1 <= Max
    /\ Step(e, Child(open))

\* Event::Text(s)
Text(Inline, Code, Max) ==
    \E s \in (IF Top = "CodeBlock" THEN Code ELSE Inline) : Leaf(EvText(s), Max)

\* Event::Code(s)
CodeSpan(Strs, Max) == \E s \in Strs : Leaf(EvCode(s), Max)

\* Event::Html(s)
Html(Strs, Max) == \E s \in Strs : Leaf(EvHtml(s), Max)

\* Event::SoftBreak
SoftBreak(Max) == Leaf(EvSoftBreak, Max)

\* Event::HardBreak
HardBreak(Max) == Leaf(EvHardBreak, Max)

\* Event::Rule
Rule(Max) == Leaf(EvRule, Max)

\* Event::TaskListMarker(is_checked)
TaskListMarker(Max) == \E b \in BOOLEAN : Leaf(EvTaskListMarker(b), Max)

\* Event::FootnoteReference(label)
FootnoteReference(Strs, Max) == \E s \in Strs : Leaf(EvFootnoteReference(s), Max)

\* the event stream has ended: the tail of Context::format, and its return
Finish ==
    /\ pc = "run"
    /\ open = <<>>
    /\ Commit(FormatTail(Ctx))
    /\ pc' = "done"
    /\ ev' = EvEof
    /\ UNCHANGED <<is_last_html, open, nev>>

----------------------------------------------------------------------------
(* Documents of blocks: paragraphs, headings, quotes, lists, code, HTML *)

MaxEvents == 7

BlockDocTags ==
    {TagParagraph, TagHeading(1, None, <<>>), TagBlockQuote, TagCodeBlockIndented,
     TagCodeBlockFenced(<<"r">>), TagList(None), TagItem}
BlockDocTexts == {<<"a">>}
BlockDocCode == {<<"a", NL>>, <<"a">>, <<NL, NL, "a", NL>>}
BlockDocHtml == {<<"<", "p", ">", NL>>, <<"<", "p", ">">>}

Init == InitWith({-1}, {{}}, {FormatterDefault})

Next ==
    \/ Start(BlockDocTags, MaxEvents)
    \/ End
    \/ Text(BlockDocTexts, BlockDocCode, MaxEvents)
    \/ Html(BlockDocHtml, MaxEvents)
    \/ SoftBreak(MaxEvents)
    \/ HardBreak(MaxEvents)
    \/ Rule(MaxEvents)
    \/ Finish

Spec == Init /\ [][Next]_vars

\* the lines of the text the sink has accepted
OutLines == Lines(writer)

\* a line without any character but white space
IsBlank(line) == TrimEnd(line) = <<>>

\* C1: the text written to the sink never begins with a blank line and never
\* holds two blank lines in a row, whatever the events were
C1_NoDoubleBlank ==
    /\ OutLines # <<>> => ~IsBlank(OutLines[1])
    /\ \A i \in 1..(Len(OutLines) - 1) : ~(IsBlank(OutLines[i]) /\ IsBlank(OutLines[i + 1]))

\* C1: a finished render whose fenced code block began with two line feeds:
\* one blank line follows the opening fence, the second was not written
C1_Witness ==
    /\ pc = "done"
    /\ \E i \in 1..(Len(OutLines) - 2) :
          /\ OutLines[i] = FENCE \o <<"r">>
          /\ OutLines[i + 1] = <<>>
          /\ OutLines[i + 2] = <<"a">>

\* the lines this step wrote
NewLines == SubSeq(Lines(writer'), Len(Lines(writer)) + 1, Len(Lines(writer')))

\* the step handles the end of a fenced code block
IsFenceEnd == ev'.kind = "End" /\ ev'.tag.t = "CodeBlock" /\ ev'.tag.fenced /\ ~err'

\* the last of the lines `new` is the closing fence after the padding of the frames
FenceLineIsLast(new, st, o) == new # <<>> /\ Last(new) = PadAll(st, o) \o FENCE

\* C9: the end of a fenced code block writes the closing fence on a line of its
\* own, whatever the text of the block
C9_ClosingFenceOwnLine == [][IsFenceEnd => FenceLineIsLast(NewLines, stack, opts)]_vars

\* C9 for the blocks whose text is empty or ends with a newline
C9_ClosingFenceAfterNewline ==
    [][(IsFenceEnd /\ (text_buf = <<>> \/ Last(text_buf) = NL))
          => FenceLineIsLast(NewLines, stack, opts)
      ]_vars

----------------------------------------------------------------------------
(* Documents of tables.  A body row may hold fewer cells than the header,   *)
(* or one more: the renderer stores whatever cells the events bring.        *)

MaxTableEvents == 16

TableDocTags ==
    {TagTable(<<"Center">>), TagTable(<<"Left", "Right">>), TagTable(<<"None", "Left">>),
     Tag("TableHead"), Tag("TableRow"), Tag("TableCell")}
TableDocTexts == {<<"a">>, <<"b", "b", "b", "b">>}

InitTable == InitWith({-1}, {{}}, {FormatterDefault})

NextTable ==
    \/ Start(TableDocTags, MaxTableEvents)
    \/ End
    \/ Text(TableDocTexts, {}, MaxTableEvents)
    \/ Finish

SpecTable == InitTable /\ [][NextTable]_vars

\* the pieces of a line between its `|` characters
RECURSIVE SplitBar(_)
SplitBar(line) ==
    LET S == {i \in 1..Len(line) : line[i] = "|"} IN
    IF S = {} THEN <<line>>
    ELSE LET i == CHOOSE x \in S : \A y \in S : x <= y IN
         <<SubSeq(line, 1, i - 1)>> \o SplitBar(SubSeq(line, i + 1, Len(line)))

\* the cells of a rendered table row: what stands between two `|`
RowCells(line) == LET p == SplitBar(line) IN SubSeq(p, 2, Len(p) - 1)

\* the greatest number of a non-empty finite set of numbers
SetMax(S) == CHOOSE x \in S : \A y \in S : y <= x

\* max(3, header cell, every body cell of column i) of the accumulated table
WidthOf(t, i) ==
    SetMax({3, Len(t.head[i])}
           \cup {Len(t.body[r][i]) : r \in {q \in 1..Len(t.body) : i <= Len(t.body[q])}})

\* this step handles the end of a table that was being accumulated
IsTableEnd == ev'.kind = "End" /\ ev'.tag.t = "Table" /\ table.some /\ ~err'

\* the accumulated rows in the order they are rendered, the divider left out
RowsOf(t) == <<t.head>> \o t.body

\* the column widths hold of the lines `new`, written for the table t
WidthsHold(t, new) ==
    /\ Len(new) = Len(t.body) + 2
    /\ Len(RowCells(new[2])) = Len(t.head)
    /\ \A k \in 1..Len(new) :
          LET cells == RowCells(new[k]) IN
          /\ Len(cells) <= Len(t.head)
          /\ \A i \in 1..Len(cells) : Len(cells[i]) = WidthOf(t, i) + 2
    /\ \A k \in 1..(Len(t.body) + 1) :
          LET row == RowsOf(t)[k]
              cells == RowCells(new[IF k = 1 THEN 1 ELSE k + 1])
          IN \A i \in 1..Len(cells) :
                cells[i] = <<SP>> \o row[i] \o Spaces(WidthOf(t, i) - Len(row[i])) \o <<SP>>

\* C2: at the end of a table, the divider cell of every column and the padded
\* cell of every header and body row in that column are as wide as max(3,
\* header cell, widest body cell of the column), plus the space on each side
C2_ColumnWidths == [][IsTableEnd => WidthsHold(table, NewLines)]_vars

\* C2: a table was rendered whose second column is as wide as a body cell of
\* four characters and whose first column has the floor of three
C2_Witness ==
    /\ ev.kind = "End" /\ ev.tag.t = "Table"
    /\ Len(OutLines) = 3
    /\ RowCells(OutLines[1]) = <<<<SP, "a", SP, SP, SP>>, <<SP, SP, SP, SP, SP, SP>>>>
    /\ RowCells(OutLines[3]) = <<<<SP, SP, SP, SP, SP>>, <<SP, "b", "b", "b", "b", SP>>>>

\* every line of `new` has n cells
CellCountIs(new, n) == \A k \in 1..Len(new) : Len(RowCells(new[k])) = n

\* C3: every rendered row of a table, also one that accumulated fewer cells
\* than the header, is written with as many cells as the header
C3_SameCellCount == [][IsTableEnd => CellCountIs(NewLines, Len(table.head))]_vars

----------------------------------------------------------------------------
(* Documents of inline text: what Event::Text escapes *)

MaxTextEvents == 6

TextDocTags == {TagParagraph, Tag("Emphasis"), TagCodeBlockFenced(<<>>)}
TextDocTexts ==
    {<<ch>> : ch \in {BSL, "<", ">", "*", "_", BT, "[", "]", "~"}}
    \cup {<<"a">>, <<"a", "*">>, <<"*", "_">>, <<"#">>}
TextDocCode == {<<"*", NL>>, FENCE \o <<NL>>}

InitText == InitWith({-1}, {{}}, {FormatterDefault})

NextText ==
    \/ Start(TextDocTags, MaxTextEvents)
    \/ End
    \/ Text(TextDocTexts, TextDocCode, MaxTextEvents)
    \/ Finish

SpecText == InitText /\ [][NextText]_vars

\* the characters a backslash is put before wherever the text fragment stands
Escaped == {BSL, "<", ">", "*", "_", BT, "[", "]", "~"}

\* C4: a Text event outside a code block whose text begins with one of
\* \ < > * _ ` [ ] ~ appends a backslash and then the text as it is to the
\* pending line, whatever the pending line holds
C4_LeadingEscape ==
    [][(ev'.kind = "Text" /\ ~code_block.some /\ ev'.s # <<>> /\ ev'.s[1] \in Escaped)
         => text_buf' = text_buf \o <<BSL>> \o ev'.s
      ]_vars

\* C4: `*_` arrived while the pending line held `a`: one backslash, before `*`
C4_Witness ==
    /\ ev = EvText(<<"*", "_">>)
    /\ ~code_block.some
    /\ text_buf = <<"a", BSL, "*", "_">>

----------------------------------------------------------------------------
(* Documents with reference links and reference definitions *)

MaxLinkEvents == 7

LinkDocRefs ==
    {Reference(<<"b">>, <<"u">>, None),
     Reference(<<"a">>, <<"U">>, Some(<<"t">>)),
     Reference(<<"B">>, <<"v">>, None)}
LinkDocTags ==
    {TagParagraph, TagLink("Inline", <<"u">>, <<>>),
     TagLink("ReferenceUnknown", <<"w">>, <<"t">>)}
    \cup {TagLink("Reference", d, <<>>) : d \in {<<"u">>, <<"V">>, <<"w">>}}
LinkDocTexts == {<<"x">>}
LinkDocHtml == {<<"<", "p", ">", NL>>, <<"<", "p", ">">>}

InitLink == InitWith({-1}, SUBSET LinkDocRefs, {FormatterDefault})

NextLink ==
    \/ Start(LinkDocTags, MaxLinkEvents)
    \/ End
    \/ Text(LinkDocTexts, {}, MaxLinkEvents)
    \/ Html(LinkDocHtml, MaxLinkEvents)
    \/ Finish

SpecLink == InitLink /\ [][NextLink]_vars

\* the step handles the end of a reference-type link
IsReferenceEnd ==
    /\ ev'.kind = "End"
    /\ ev'.tag.t = "Link"
    /\ ev'.tag.ltype \in {"Reference", "ReferenceUnknown"}

\* a = b up to the case of the ASCII letters
SameDest(a, b) ==
    /\ Len(a) = Len(b)
    /\ \A i \in 1..Len(a) : LowerCh(a[i]) = LowerCh(b[i])

\* ` "title"` when there is a title
TitleSuffix(title) == IF title = <<>> THEN <<>> ELSE <<SP, "\"">> \o title \o <<"\"">>

ReferenceEndHolds(rs, dest, title, old, new) ==
    IF \E i \in 1..Len(rs) : SameDest(rs[i].dest, dest)
    THEN \E i \in 1..Len(rs) :
            /\ SameDest(rs[i].dest, dest)
            /\ new = old \o <<"]", "[">> \o rs[i].label \o <<"]">>
    ELSE new = old \o <<"]", "(">> \o dest \o TitleSuffix(title) \o <<")">>

\* C5: the end of a reference-type link appends `][label]` of a collected
\* definition whose destination matches the link's destination when there is
\* one, and `](destination)` or `](destination "title")` when there is none
C5_ReferenceLink ==
    [][IsReferenceEnd =>
          ReferenceEndHolds(refdefs, ev'.tag.dest, ev'.tag.title, text_buf, text_buf')
      ]_vars

\* C5: the link to V, with the definition [B]: v collected, is written [x][B]
C5_Witness ==
    /\ ev = EvEnd(TagLink("Reference", <<"V">>, <<>>))
    /\ Len(refdefs) = 3
    /\ text_buf = <<"[", "x", "]", "[", "B", "]">>

\* `[label]: destination` and ` "title"` when it has one
RefLine(r) ==
    <<"[">> \o r.label \o <<"]", ":", SP>> \o r.dest
        \o (IF r.title.some THEN <<SP, "\"">> \o r.title.v \o <<"\"">> ELSE <<>>)

\* the body ends, when it has a line, with one blank line
WithBoundary(body) ==
    IF body = <<>> \/ IsBlank(Last(body)) THEN body ELSE Append(body, <<>>)

TrimmedLines(s) == LET ls == Lines(s) IN [i \in 1..Len(ls) |-> TrimEnd(ls[i])]

\* the step is the end of a render that succeeds and has definitions to write
IsRefdefTail == pc = "run" /\ pc' = "done" /\ ev'.kind = "Eof" /\ ~err' /\ refdefs # <<>>

RefdefTailHolds(rs, body, new) ==
    /\ \A i, j \in 1..Len(rs) : i < j => StrLess(rs[i].label, rs[j].label)
    /\ new = WithBoundary(body) \o [i \in 1..Len(rs) |-> RefLine(rs[i])]

\* C6: the end of a render writes what is left of the body, then a blank line,
\* then every collected reference definition once, a line each, in ascending
\* order of the labels
C6_RefdefTail ==
    [][IsRefdefTail =>
          RefdefTailHolds(refdefs, Lines(writer) \o TrimmedLines(text_buf), Lines(writer'))
      ]_vars

\* C6 when no text is pending at the end of the events
C6_RefdefTailFlushed ==
    [][(IsRefdefTail /\ text_buf = <<>>) =>
          RefdefTailHolds(refdefs, Lines(writer), Lines(writer'))
      ]_vars

----------------------------------------------------------------------------
(* Documents of lists: the padding of the lines of an item *)

MaxListEvents == 12

ListDocTags ==
    {TagList(None), TagList(Some(10)), TagItem, TagParagraph, TagBlockQuote}
ListDocTexts == {<<"a">>}
ListDocOpts == {FormatterDefault, Formatter("none", <<">">>, <<"_">>, <<"*", "*">>)}

InitList == InitWith({-1}, {{}}, ListDocOpts)

NextList ==
    \/ Start(ListDocTags, MaxListEvents)
    \/ End
    \/ Text(ListDocTexts, {}, MaxListEvents)
    \/ SoftBreak(MaxListEvents)
    \/ Finish

SpecList == InitList /\ [][NextList]_vars

\* the length of the marker of a list frame and its separator
MarkerWidth(item, o) ==
    IF item.l.some THEN Len(item.l.v) + 2 ELSE Len(o.unordered_list_str) + 1

\* the columns a frame takes of a line
FrameWidth(item, o) ==
    CASE item.k = "Blockquote" -> Len(o.blockquote_str) + 1
      [] item.k = "CodeIndent" -> 4
      [] item.k = "List" -> MarkerWidth(item, o)

\* the columns the frames below frame i take
RECURSIVE FrameOffset(_, _, _)
FrameOffset(st, o, i) ==
    IF i <= 1 THEN 0 ELSE FrameOffset(st, o, i - 1) + FrameWidth(st[i - 1], o)

\* the list frames whose item has its first line written
WrittenLists(st) == {i \in 1..Len(st) : st[i].k = "List" /\ st[i].written}

\* the line holds, in the columns of frame i, spaces as long as the item's marker
\* and separator
PaddedAt(line, st, o, i) ==
    LET off == FrameOffset(st, o, i) IN
    /\ Len(line) >= off + MarkerWidth(st[i], o)
    /\ \A k \in (off + 1)..(off + MarkerWidth(st[i], o)) : line[k] = SP

\* the line has something after the columns of frame i
ReachesPast(line, st, o, i) == Len(line) > FrameOffset(st, o, i) + MarkerWidth(st[i], o)

AllPadded(new, st, o) ==
    \A k \in 1..Len(new) : \A i \in WrittenLists(st) : PaddedAt(new[k], st, o, i)

ContentPadded(new, st, o) ==
    \A k \in 1..Len(new) : \A i \in WrittenLists(st) :
        ReachesPast(new[k], st, o, i) => PaddedAt(new[k], st, o, i)

\* C7, as stated: every line written for an item after the item's first line
\* has, in the columns of the item's list frame, spaces as long as the item's
\* marker and separator
C7_ListPaddingAllLines == [][AllPadded(NewLines, stack, opts)]_vars

\* C7, amended: every line written for an item after the item's first line that
\* has something after the columns of the item's list frame has, in these
\* columns, spaces as long as the item's marker and separator (a line with
\* nothing after them is cut by the trim of trailing white space)
C7_ListPadding == [][ContentPadded(NewLines, stack, opts)]_vars

\* C7: the lines of an item of a list numbered 10, inside an item of a list of
\* `**` bullets, are written after 3 spaces, and the second after 4 more
C7_Witness ==
    /\ opts.unordered_list_str = <<"*", "*">>
    /\ Len(OutLines) = 3
    /\ OutLines[2] = Spaces(3) \o <<"1", "0", ".", SP, "a">>
    /\ OutLines[3] = Spaces(7) \o <<"a">>

\* the list frames of a stack
Lists(st) == {i \in 1..Len(st) : st[i].k = "List"}

\* the bullet of an item, or its ordinal and the dot
Marker(item, o) == IF item.l.some THEN item.l.v \o <<".">> ELSE o.unordered_list_str

\* the line holds, in the columns of frame i, the marker and a space after it
\* unless the line ends with the marker
CarriesMarker(line, st, o, i) ==
    LET off == FrameOffset(st, o, i)
        mk == Marker(st[i], o)
    IN /\ Len(line) >= off + Len(mk)
       /\ SubSeq(line, off + 1, off + Len(mk)) = mk
       /\ Len(line) > off + Len(mk) => line[off + Len(mk) + 1] = SP

\* the line holds nothing but spaces in the columns of frame i
CarriesBlank(line, st, o, i) ==
    LET off == FrameOffset(st, o, i) IN
    \A k \in (off + 1)..Min2(Len(line), off + MarkerWidth(st[i], o)) : line[k] = SP

\* of the lines `new`, written with the frames st, the first carries the marker
\* of each list frame that has not written it, and every other line is blank there
OneMarkerLine(new, st, o) ==
    \A i \in Lists(st) : \A k \in 1..Len(new) :
        IF k = 1 /\ ~st[i].written
        THEN CarriesMarker(new[k], st, o, i)
        ELSE CarriesBlank(new[k], st, o, i)

\* a frame has its marker written from the first line on, until the next item starts
WrittenTracks(new, st, st2, e) ==
    \A i \in Lists(st) \cap Lists(st2) :
        IF e.kind = "Start" /\ e.tag.t = "Item" /\ i = Len(st)
        THEN ~st2[i].written
        ELSE st2[i].written = (st[i].written \/ new # <<>>)

\* C20: the first line written after the start of a list item carries the
\* item's marker in the columns of its list frame, and every later line of the
\* item carries spaces there
C20_OneMarkerLine ==
    [][/\ OneMarkerLine(NewLines, stack, opts)
       /\ WrittenTracks(NewLines, stack, stack', ev')
      ]_vars

\* C20: an item of two lines: the marker on the first, two spaces on the second
C20_Witness ==
    /\ opts.unordered_list_str = <<"-">>
    /\ ev = EvEnd(TagItem)
    /\ writer = <<"-", SP, "a", NL, SP, SP, "a", NL>>

----------------------------------------------------------------------------
(* Renders into a sink that fails *)

MaxSinkEvents == 7
\* the writes the sink accepts before it fails, at most
MaxFuel == 5

SinkDocRefs == {Reference(<<"a">>, <<"u">>, None)}
SinkDocTags == {TagParagraph, TagHeading(1, None, <<>>), TagBlockQuote}
SinkDocTexts == {<<"a">>}

InitSink == InitWith(0..MaxFuel, SUBSET SinkDocRefs, {FormatterDefault})

NextSink ==
    \/ Start(SinkDocTags, MaxSinkEvents)
    \/ End
    \/ Text(SinkDocTexts, {}, MaxSinkEvents)
    \/ SoftBreak(MaxSinkEvents)
    \/ Rule(MaxSinkEvents)
    \/ Finish

SpecSink == InitSink /\ [][NextSink]_vars

\* C8: no step is taken after a write to the sink has failed, and the step in
\* which a write fails ends the render with the error, the failing write being
\* the last one the sink receives: the writes it still accepted, and one more
C8_FailFast ==
    [][/\ ~err
       /\ err' => (pc' = "done" /\ calls' = calls + fuel + 1 /\ fuel' = 0)
       /\ ~err' => (calls' + fuel' = calls + fuel)
      ]_vars

\* C8: the render has failed writing the newline of its second line
C8_Witness ==
    /\ err
    /\ pc = "done"
    /\ writer = <<"a", NL, "a">>
    /\ calls = 4

----------------------------------------------------------------------------
(* Block documents: what the start of a block does to the pending line *)

\* the tags of the blocks that open with a line of their own
BlockStarts == {"Heading", "BlockQuote", "CodeBlock", "List", "FootnoteDefinition", "Table"}

\* the step handles the start of such a block
IsBlockStart == ev'.kind = "Start" /\ ev'.tag.t \in BlockStarts /\ ~err'

\* the pending line `old` is not the beginning of the pending line `new`
Flushed(old, new) == old = <<>> \/ ~IsPrefix(old, new)

\* C11: the start of a block flushes the text earlier events left in the
\* pending line, so that the line of the new block does not begin with it
C11_BlockStartFlushes == [][IsBlockStart => Flushed(text_buf, text_buf')]_vars

\* C11 for the starts that arrive with newline_required set, and for code blocks
C11_BlockStartFlushesRequired ==
    [][(IsBlockStart /\ (newline_required \/ ev'.tag.t = "CodeBlock"))
          => Flushed(text_buf, text_buf')
      ]_vars

\* the step handles a thematic break
IsRule == ev'.kind = "Rule" /\ ~err'

\* the padding of a line of the frames st: of their next line, or of a later one
Paddings(st, o) ==
    {PadAll(st, o), PadAll(write_padding_to_scratch([stack |-> st, opts |-> o]).stack, o)}

\* the last of the lines `new` is `---` after the padding of the frames
RuleLineIsLast(new, st, o) ==
    /\ new # <<>>
    /\ \E pad \in Paddings(st, o) : Last(new) = pad \o <<"-", "-", "-">>

\* C12: a thematic break is written as `---` on a line of its own, after the
\* padding of the frames only, whatever the pending line holds
C12_RuleOwnLine == [][IsRule => RuleLineIsLast(NewLines, stack, opts)]_vars

\* C12 for the thematic breaks that arrive with an empty pending line
C12_RuleOwnLineNoPending ==
    [][(IsRule /\ text_buf = <<>>) => RuleLineIsLast(NewLines, stack, opts)]_vars

\* the events before which an Html event forces no newline
AfterHtmlExempt == {"Html", "Text", "SoftBreak", "End"}

\* the step handles an event
IsEventStep == nev' = nev + 1

\* the context the step leaves is the one `match event` leaves for e, begun
\* after a write_newline() when `forced`
HandledAfter(c, forced, e, new) == new = Dispatch(IF forced THEN write_newline(c) ELSE c, e)

\* C14: the event after an Html event is handled after a forced newline if and
\* only if it is not Html, Text, SoftBreak or End; an event that does not follow
\* an Html event is handled with no forced newline
C14_NewlineAfterHtml ==
    [][IsEventStep =>
          /\ HandledAfter(Ctx, is_last_html /\ ev'.kind \notin AfterHtmlExempt, ev', Ctx')
          /\ is_last_html' = (ev'.kind = "Html")
      ]_vars

\* C14: `---` after the HTML `<p>`, which a forced newline has put on its own line
C14_Witness ==
    /\ ev = EvRule
    /\ writer = <<"<", "p", ">", NL, "-", "-", "-", NL>>

\* the kind of frame an open tag keeps on the container stack, "" when none
FrameKindOf(tag) ==
    CASE tag.t = "BlockQuote" -> "Blockquote"
      [] tag.t = "CodeBlock" /\ ~tag.fenced -> "CodeIndent"
      [] tag.t = "List" -> "List"
      [] OTHER -> ""

\* the kinds of the frames the open tags keep, in the order they were opened
RECURSIVE OpenKinds(_)
OpenKinds(o) ==
    IF o = <<>> THEN <<>>
    ELSE LET k == FrameKindOf(Last(o).tag) IN
         OpenKinds(Front(o)) \o (IF k = "" THEN <<>> ELSE <<k>>)

StackKinds(st) == [i \in 1..Len(st) |-> st[i].k]

\* C15: the container stack holds one frame for each open block quote,
\* indented code block and list, in the order they were opened, and no other;
\* it is empty when the events have ended
C15_StackMatchesOpen ==
    ~err => /\ StackKinds(stack) = OpenKinds(open)
            /\ pc = "done" => stack = <<>>

\* C15: an indented code block open in a list item: the item has no frame
C15_Witness ==
    /\ Len(open) = 3
    /\ Top = "CodeBlock"
    /\ text_buf # <<>>
    /\ StackKinds(stack) = <<"List", "CodeIndent">>

----------------------------------------------------------------------------
(* Tables whose cells hold inline HTML, emphasis and code *)

MaxCellEvents == 10

CellDocTags ==
    {TagTable(<<"None">>), Tag("TableHead"), Tag("TableRow"), Tag("TableCell"),
     Tag("Emphasis")}
CellDocTexts == {<<"a">>}
CellDocHtml == {<<"<", "b", ">">>}

InitCell == InitWith({-1}, {{}}, {FormatterDefault})

NextCell ==
    \/ Start(CellDocTags, MaxCellEvents)
    \/ End
    \/ Text(CellDocTexts, {}, MaxCellEvents)
    \/ CodeSpan(CellDocTexts, MaxCellEvents)
    \/ Html(CellDocHtml, MaxCellEvents)
    \/ Finish

SpecCell == InitCell /\ [][NextCell]_vars

\* the step handles an event that comes after the start of a table and is not
\* its end
IsInsideTable == table.some /\ ~(ev'.kind = "End" /\ ev'.tag.t = "Table")

\* C13: between the start of a table and its end nothing is written to the
\* sink; the end of the table writes the header, the divider and the body rows,
\* and clears the table
C13_TableWrittenAtEnd ==
    [][/\ IsInsideTable => writer' = writer
       /\ IsTableEnd => (Len(NewLines) = Len(table.body) + 2 /\ ~table'.some)
      ]_vars

----------------------------------------------------------------------------
(* Documents with breaks and text that ends in white space *)

MaxBreakEvents == 7

BreakDocTags == {TagParagraph, TagBlockQuote, TagList(None), TagItem}
BreakDocTexts == {<<"a", SP>>, <<"a", SP, NL, "b">>}
BreakDocHtml == {<<"<", "p", ">", SP>>}

InitBreak == InitWith({-1}, {{}}, {FormatterDefault})

NextBreak ==
    \/ Start(BreakDocTags, MaxBreakEvents)
    \/ End
    \/ Text(BreakDocTexts, {}, MaxBreakEvents)
    \/ Html(BreakDocHtml, MaxBreakEvents)
    \/ SoftBreak(MaxBreakEvents)
    \/ HardBreak(MaxBreakEvents)
    \/ Finish

SpecBreak == InitBreak /\ [][NextBreak]_vars

NoTrailingWhite(line) == line = <<>> \/ ~IsWhite(Last(line))

IsSuffix(s, t) == Len(s) <= Len(t) /\ SubSeq(t, Len(t) - Len(s) + 1, Len(t)) = s

\* the last lines of `new` end with the lines of `pending`, white space and all,
\* and the lines before them have no trailing white space
EndsUntrimmed(new, pending) ==
    /\ Len(pending) <= Len(new)
    /\ \A j \in 1..Len(pending) :
          IsSuffix(pending[j], new[Len(new) - Len(pending) + j])
    /\ \A k \in 1..(Len(new) - Len(pending)) : NoTrailingWhite(new[k])

\* the lines the flush of a hard break has to write: the pending line and the
\* backslash of the break (a newline forced after an Html event has written the
\* pending line before)
HardBreakLines(tb, last_html) == Lines((IF last_html THEN <<>> ELSE tb) \o <<BSL>>)

\* C16: a line written to the sink has no trailing white space, but for the
\* lines the flush of a hard break writes: these are written as they are, and
\* the last of them ends with the backslash of the break
C16_Trimmed ==
    [][/\ ev'.kind # "HardBreak" => \A k \in 1..Len(NewLines) : NoTrailingWhite(NewLines[k])
       /\ (ev'.kind = "HardBreak" /\ ~err') =>
             EndsUntrimmed(NewLines, HardBreakLines(text_buf, is_last_html))
      ]_vars

\* C16: a hard break has written `a ` with its trailing space and `b\`
C16_Witness ==
    /\ ev = EvHardBreak
    /\ writer = <<"a", SP, NL, "b", BSL, NL>>

----------------------------------------------------------------------------
(* Documents of code blocks, rendered with and without a code formatter *)

MaxCodeEvents == 5

CodeDocTags ==
    {TagParagraph, TagCodeBlockIndented, TagCodeBlockFenced(<<"r">>),
     TagCodeBlockFenced(<<>>)}
CodeDocTexts == {<<"a", SP>>, <<"*">>}
CodeDocCode == {<<"a", SP, NL>>, <<"*", "a", NL>>, FENCE \o <<NL>>, <<BT, NL>>}
CodeDocOpts ==
    {Formatter(f, <<">">>, <<"_">>, <<"-">>) :
        f \in {"none", "decline", "strip", "wrap", "r-only"}}

InitCode == InitWith({-1}, {{}}, CodeDocOpts)

NextCode ==
    \/ Start(CodeDocTags, MaxCodeEvents)
    \/ End
    \/ Text(CodeDocTexts, CodeDocCode, MaxCodeEvents)
    \/ Finish

SpecCode == InitCode /\ [][NextCode]_vars

\* the step handles a Text event
IsText == ev'.kind = "Text" /\ ~err'

\* the tokenizer is between the start and the end of a fenced code block
InFence == Top = "CodeBlock" /\ Last(open).tag.fenced

\* what the configured code formatter returns for the text s of the open fence
Transformed(o, s) ==
    IF InFence /\ o.code_fmt # "none"
    THEN CodeFmtCall(o.code_fmt, Last(open).tag.info, s)
    ELSE None

\* the text the claim expects a Text event to append
ExpectedText(o, s) == LET v == Transformed(o, s) IN IF v.some THEN v.v ELSE s

\* `new` is `old` and then t, but for an escaping backslash before t
Appends(old, t, new) == new = old \o t \/ new = old \o <<BSL>> \o t

\* C17: a Text event appends what the code formatter returns when the event
\* comes inside a fenced code block, a formatter is configured and it returns
\* a text for the fence's info string and the event's text; in every other case
\* it appends the text of the event
C17_CodeTransform == [][IsText => Appends(text_buf, ExpectedText(opts, ev'.s), text_buf')]_vars

\* C17: the formatter that strips trailing white space has turned `a \n` into `a`
C17_Witness ==
    /\ opts.code_fmt = "strip"
    /\ ev = EvText(<<"a", SP, NL>>)
    /\ code_block.lang.some
    /\ text_buf = <<"a">>

\* the tokenizer is between the start and the end of an indented code block
InIndented == Top = "CodeBlock" /\ ~Last(open).tag.fenced

\* the backslash the claim expects before the text t of a fenced code block
FenceEscape(t) == IF IsPrefix(FENCE, t) THEN <<BSL>> ELSE <<>>

\* C18: inside an indented code block a Text event appends its text and no
\* backslash, whatever the text begins with; inside a fenced code block it
\* appends a backslash before a text that begins with three backticks, and
\* before no other
C18_CodeEscape ==
    [][/\ (IsText /\ InIndented) => text_buf' = text_buf \o ev'.s
       /\ (IsText /\ InFence) =>
             LET t == ExpectedText(opts, ev'.s) IN text_buf' = text_buf \o FenceEscape(t) \o t
      ]_vars

\* C18 with the escape of three backticks in the indented code block as well
C18_CodeEscapeAnyBlock ==
    [][(IsText /\ (InIndented \/ InFence)) =>
          LET t == ExpectedText(opts, ev'.s) IN text_buf' = text_buf \o FenceEscape(t) \o t
      ]_vars

\* the step handles the end of a code block
IsCodeEnd == ev'.kind = "End" /\ ev'.tag.t = "CodeBlock" /\ ~err'

\* the lines `new` are the lines `content`, each after the padding of the frames
PaddedCopy(new, content, st, o) ==
    /\ Len(new) = Len(content)
    /\ \A k \in 1..Len(content) : \E pad \in Paddings(st, o) : new[k] = pad \o content[k]

\* the lines the end of the code block wrote, the closing fence left out
CodeLines(new, fenced) == IF fenced /\ new # <<>> THEN Front(new) ELSE new

\* C19: the end of a code block writes every pending line of its text, in
\* order and as it is, after the padding of the frames
C19_CodeVerbatim ==
    [][IsCodeEnd =>
          PaddedCopy(CodeLines(NewLines, ev'.tag.fenced), Lines(text_buf), stack, opts)
      ]_vars

\* every line of the text s has a character, ends with none of white space, and
\* s ends with a newline
PlainLines(s) ==
    /\ s # <<>> /\ Last(s) = NL
    /\ \A k \in 1..Len(Lines(s)) : Lines(s)[k] # <<>> /\ NoTrailingWhite(Lines(s)[k])

\* C19 for the code blocks of such lines
C19_CodeVerbatimPlain ==
    [][(IsCodeEnd /\ PlainLines(text_buf)) =>
          PaddedCopy(CodeLines(NewLines, ev'.tag.fenced), Lines(text_buf), stack, opts)
      ]_vars

----------------------------------------------------------------------------
(* Documents of lists: what stands between an item and the next one *)

\* the context after the events End(Item) and Start(Item) follow the step: the
\* item is over and another one of the same list begins
AfterItemEnd(c) == HandleEvent(c, FALSE, EvEnd(TagItem))
NextItemStarted(c) == HandleEvent(AfterItemEnd(c), FALSE, EvStart(TagItem))

\* the blank lines the lines end with
RECURSIVE TrailingBlanks(_)
TrailingBlanks(lines) ==
    IF lines = <<>> \/ ~IsBlank(Last(lines)) THEN 0
    ELSE 1 + TrailingBlanks(Front(lines))

\* the last line that is not blank
LastContentLine(lines) == lines[Len(lines) - TrailingBlanks(lines)]

\* everything is written, and k blank lines follow the last line of content
BlanksBeforeNext(c, lines, k) ==
    /\ ~c.err => c.text_buf = <<>>
    /\ ~c.err => TrailingBlanks(lines) = k
    /\ ~c.err => Len(lines) > k

\* the line is a line of a block quote
IsQuoteLine(line, o) ==
    \E k \in 1..Len(line) : SubSeq(line, k, k + Len(o.blockquote_str) - 1) = o.blockquote_str

\* the step ends a block quote that stands in an item
IsQuoteEndInItem ==
    /\ ev'.kind = "End" /\ ev'.tag.t = "BlockQuote" /\ ~err'
    /\ Len(open) >= 2 /\ open[Len(open) - 1].tag.t = "Item"

\* the block quote ended with a paragraph, and no block quote is open around
\* its list
IsPlainQuoteEndInItem ==
    /\ IsQuoteEndInItem
    /\ ev = EvEnd(TagParagraph)
    /\ \A i \in 1..(Len(open) - 1) : open[i].tag.t # "BlockQuote"

\* the step ends a paragraph that is the only child of its item; the tokenizer
\* ends no paragraph right after a soft break
IsOnlyParagraphEnd ==
    /\ ev'.kind = "End" /\ ev'.tag.t = "Paragraph" /\ ~err'
    /\ ev.kind # "SoftBreak"
    /\ Len(open) >= 2 /\ open[Len(open) - 1].tag.t = "Item"
    /\ open[Len(open) - 1].n = 1

\* the step is a text of an item that has no block so far (a soft break stands
\* between two texts, so that no item ends with one)
IsInlineOfItem ==
    /\ ev'.kind = "Text" /\ ~err'
    /\ Top = "Item" /\ Last(open).blocks = 0

QuoteThenItem(c, lines, o) ==
    /\ BlanksBeforeNext(c, lines, 1)
    /\ ~c.err => IsQuoteLine(LastContentLine(lines), o)

InlineThenItem(c) ==
    /\ IsOnlyParagraphEnd =>
          BlanksBeforeNext(NextItemStarted(c), Lines(NextItemStarted(c).writer), 0)
    /\ IsInlineOfItem =>
          BlanksBeforeNext(NextItemStarted(c), Lines(NextItemStarted(c).writer), 0)

ItemSeparation(c) ==
    /\ IsQuoteEndInItem =>
          QuoteThenItem(NextItemStarted(c), Lines(NextItemStarted(c).writer), opts)
    /\ InlineThenItem(c)

ItemSeparationPlain(c) ==
    /\ IsPlainQuoteEndInItem =>
          QuoteThenItem(NextItemStarted(c), Lines(NextItemStarted(c).writer), opts)
    /\ InlineThenItem(c)

\* C21: when the content of an item ends with a block quote and another item of
\* the list follows, one blank line and no more stands between the last line of
\* the block quote and whatever the next item writes; when the item holds inline
\* text only, or one paragraph only, no blank line stands there
C21_ItemSeparation == [][ItemSeparation(Ctx')]_vars

\* C21 for the lists that stand in no block quote, and the block quotes that
\* end with a paragraph
C21_ItemSeparationPlain == [][ItemSeparationPlain(Ctx')]_vars

----------------------------------------------------------------------------
(* The end of the render: what is left in the pending line *)

\* the render has returned Ok
IsDoneOk == pc = "done" /\ ~err

\* C22: when a render has completed successfully the pending line is empty:
\* everything the events appended to it has been written to the sink, whether
\* or not a reference definition was collected
C22_BufferEmptyAtEnd == IsDoneOk => text_buf = <<>>

\* C22 for the renders that collected a reference definition: the tail of the
\* render leaves the pending line empty
C22_BufferEmptyWithRefdefs ==
    [][(ev' = EvEof /\ ~err' /\ refdefs # <<>>) => text_buf' = <<>>]_vars

----------------------------------------------------------------------------
(* Reference links: the definition the short form names *)

\* the title of a definition as a link event carries it: empty when there is none
TitleOf(r) == IF r.title.some THEN r.title.v ELSE <<>>

\* the step appended `][label]` with the label of r
NamesRefdef(r, old, new) == new = old \o <<"]", "[">> \o r.label \o <<"]">>

ShortFormSame(rs, dest, title, old, new) ==
    \A i \in 1..Len(rs) :
        NamesRefdef(rs[i], old, new) => rs[i].dest = dest /\ TitleOf(rs[i]) = title

ShortFormSameDestNoCase(rs, dest, old, new) ==
    \A i \in 1..Len(rs) : NamesRefdef(rs[i], old, new) => SameDest(rs[i].dest, dest)

\* C23: when the end of a reference-type link writes the short form `][label]`,
\* the collected definition of that label has the destination and the title of
\* the link event, also when several definitions have the destination
C23_ShortFormSameTarget ==
    [][IsReferenceEnd =>
          ShortFormSame(refdefs, ev'.tag.dest, ev'.tag.title, text_buf, text_buf')
      ]_vars

\* C23 for the destination alone, up to the case of the ASCII letters
C23_ShortFormSameDestNoCase ==
    [][IsReferenceEnd =>
          ShortFormSameDestNoCase(refdefs, ev'.tag.dest, text_buf, text_buf')
      ]_vars

----------------------------------------------------------------------------
(* Tables in footnote definitions and task list items: the text of a cell *)

MaxNoteEvents == 12

NoteDocTags ==
    {TagFootnoteDefinition(<<"n">>), TagList(None), TagItem, TagTable(<<"None">>),
     Tag("TableHead"), Tag("TableRow"), Tag("TableCell")}
NoteDocTexts == {<<"a">>}

InitNote == InitWith({-1}, {{}}, {FormatterDefault})

NextNote ==
    \/ Start(NoteDocTags, MaxNoteEvents)
    \/ End
    \/ Text(NoteDocTexts, {}, MaxNoteEvents)
    \/ TaskListMarker(MaxNoteEvents)
    \/ Finish

SpecNote == InitNote /\ [][NextNote]_vars

\* the step handles the end of a table cell
IsCellEnd == ev'.kind = "End" /\ ev'.tag.t = "TableCell" /\ ~err'

\* the cell stored last
StoredCell(t) == IF t.body # <<>> THEN Last(Last(t.body)) ELSE Last(t.head)

\* what n events of a cell append, every event of a cell being the text `a`
CellContent(n) == Repeat("a", n)

\* the cell that ends is the first one of the header
IsFirstHeadCell(t) == t.head = <<>> /\ t.body = <<>>

CellExact ==
    /\ table'.some
    /\ StoredCell(table') = CellContent(Last(open).n)
    /\ text_buf' = <<>>

\* C24: the text stored for a table cell is what the events between the start
\* and the end of the cell appended, whatever was pending when the table
\* started, and the pending line is empty after the end of every cell
C24_CellTextExact == [][IsCellEnd => CellExact]_vars

\* C24 for the cells after the first cell of the header
C24_LaterCellsExact == [][(IsCellEnd /\ ~IsFirstHeadCell(table)) => CellExact]_vars

\* the pending line is empty after the end of every cell
C24_BufferEmptyAfterCell == [][IsCellEnd => text_buf' = <<>>]_vars

----------------------------------------------------------------------------
(* Ordered lists: the ordinal of the items *)

\* the list tags that are open, outermost first, and the list frames of a stack
OpenLists(o) == SelectSeq(o, LAMBDA f : f.tag.t = "List")
StackLists(st) == SelectSeq(st, LAMBDA item : item.k = "List")

\* the ordinal text of the start number of a list tag: None for a bullet list
StartOrdinal(tag) == IF tag.start.some THEN Some(to_string(tag.start.v)) ELSE None

\* every list frame holds the start number of its list
OrdinalsAreStarts(ls, fs) ==
    /\ Len(ls) = Len(fs)
    /\ \A j \in 1..Len(fs) : fs[j].l = StartOrdinal(ls[j].tag)

\* the position of frame i among the list frames of the stack
ListRank(st, i) == Cardinality({j \in 1..i : st[j].k = "List"})

\* the line holds, in the columns of frame i, the start number of the frame's
\* list and a dot, and a space after it unless the line ends there
CarriesStart(line, off, num) ==
    /\ Len(line) >= off + Len(num) + 1
    /\ SubSeq(line, off + 1, off + Len(num) + 1) = num \o <<".">>
    /\ Len(line) > off + Len(num) + 1 => line[off + Len(num) + 2] = SP

\* the first line written for an item of an ordered list has the start number
\* of the list as its ordinal
ItemsCarryStart(new, st, o, ls) ==
    \A i \in Lists(st) :
        (new # <<>> /\ ~st[i].written /\ ls[ListRank(st, i)].tag.start.some) =>
            CarriesStart(new[1], FrameOffset(st, o, i),
                         to_string(ls[ListRank(st, i)].tag.start.v))

\* C25: every item of an ordered list is written with the same ordinal, the
\* start number of the list followed by a dot and a space: the ordinal of the
\* list frame is the start number from the start of the list to its end
C25_SameOrdinal ==
    [][/\ OrdinalsAreStarts(OpenLists(open), StackLists(stack))
       /\ OrdinalsAreStarts(OpenLists(open'), StackLists(stack'))
       /\ ItemsCarryStart(NewLines, stack, opts, OpenLists(open))
      ]_vars

\* C25: two items of a list that starts at 10, both written with the ordinal 10
C25_Witness ==
    /\ ev = EvEnd(TagItem)
    /\ OutLines = <<<<"1", "0", ".", SP, "a">>, <<"1", "0", ".", SP, "a">>>>

----------------------------------------------------------------------------
(* Tables: the subtractions of the widths *)

\* `*w - 2` of the divider row: widths.iter().zip(table.alignments.iter())
DividerSubtractions(widths, alignments) ==
    \A i \in 1..Min2(Len(widths), Len(alignments)) : USub(widths[i], 2) >= 0

\* `w - width` of a row: row.iter().zip(widths.iter())
RowSubtractions(row, widths) ==
    \A i \in 1..Min2(Len(row), Len(widths)) : USub(widths[i], Len(row[i])) >= 0

NoUnderflow(t, widths) ==
    /\ DividerSubtractions(widths, t.alignments)
    /\ RowSubtractions(t.head, widths)
    /\ \A r \in 1..Len(t.body) : RowSubtractions(t.body[r], widths)

\* C26: while a table is written, the subtractions `column width - 2` of the
\* divider and `column width - cell characters` of the cells never go below
\* zero, whatever header and body rows were accumulated, also body rows with
\* fewer or more cells than the header
C26_NoUnderflow == [][IsTableEnd => NoUnderflow(table, column_widths(table))]_vars

\* C26: a table of one column whose body row has two cells of four characters:
\* the column is as wide as the body cell, the second cell is not written
C26_Witness ==
    /\ ev.kind = "End" /\ ev.tag.t = "Table"
    /\ nev = 15
    /\ OutLines = <<<<"|", SP, "a", SP, SP, SP, SP, "|">>,
                    <<"|", SP, ":", "-", "-", ":", SP, "|">>,
                    <<"|", SP, "b", "b", "b", "b", SP, "|">>>>

====
